---- MODULE Spec2Model ----
(***************************************************************************)
(* State-machine model of the opic-backend Express servers: the hash-keyed *)
(* audio cache of POST /tts, the TTL media store behind /media/tts/:id,    *)
(* the 24-attempt and the 45-second POST /speak polling loops, the         *)
(* fetch-based POST /stt proxy, POST /ask, POST /tts-eleven and the video  *)
(* prefetch queue.  Each subsystem has its own specification               *)
(* over the shared variables; the variables of the other subsystems stay   *)
(* at their initial values.                                                *)
(***************************************************************************)
EXTENDS Integers, Sequences, FiniteSets, TLC

(***************************************************************************)
(* Bounds of the model.                                                    *)
(***************************************************************************)
\* number of POST /tts requests (hash-keyed cache variant) in one behaviour
NumReq == 3
\* number of POST /tts requests (media-store variant) in one behaviour
NumMediaReq == 2
\* the clock stops at MaxClock (time unit: the sweep period, 60 s)
MaxClock == 3

Req == 1..NumReq
MReq == 1..NumMediaReq

(***************************************************************************)
(* Request inputs.  "" stands for an absent (undefined / empty) field.     *)
(***************************************************************************)
Texts == {"", "a", "b"}
RawVoices == {"", "Alloy", "verse"}
\* the renderings the speech vendor may return for one (voice, text)
Takes == {1, 2}

Truthy(s) == s # ""

\* String.prototype.toLowerCase on the voices of RawVoices
ToLowerCase(s) == IF s = "Alloy" THEN "alloy" ELSE s

(***************************************************************************)
(* Audio bytes: what the vendor synthesized (voice, text) and which of its *)
(* renderings it is.  NoAudio is the absence of a body.                    *)
(***************************************************************************)
Audio(v, t, k) == [voice |-> v, text |-> t, take |-> k]
NoAudio == [voice |-> "", text |-> "", take |-> 0]

(***************************************************************************)
(* POST /tts with the hash-keyed cache (part_001, second server)           *)
(***************************************************************************)
\* env TTS_CACHE_LIMIT (default 100), configured small so that eviction happens
TTS_CACHE_LIMIT == 2

ALLOWED_VOICES ==
    {"nova", "shimmer", "echo", "onyx", "fable", "alloy", "ash", "sage", "coral"}

\* md5 of `${voice}|${text}`: the digest is taken to be collision-free on the
\* inputs of the model, so the key is the hashed string itself
ttsKey(text, voice) == <<voice, "|", text>>

TtsKeys == {ttsKey(t, v) : t \in Texts \ {""}, v \in ALLOWED_VOICES}

\* const wanted = String(voice || 'shimmer').toLowerCase();
\* const safeVoice = ALLOWED_VOICES.has(wanted) ? wanted : 'shimmer';
SafeVoice(voice) ==
    LET wanted == ToLowerCase(IF Truthy(voice) THEN voice ELSE "shimmer")
    IN  IF wanted \in ALLOWED_VOICES THEN wanted ELSE "shimmer"

(***************************************************************************)
(* A JavaScript Map key -> Buffer, as the sequence of its entries in       *)
(* insertion order.                                                        *)
(***************************************************************************)
MapKeys(m) == {m[i].key : i \in 1..Len(m)}
MapHas(m, k) == k \in MapKeys(m)
MapIndex(m, k) == CHOOSE i \in 1..Len(m) : m[i].key = k
\* Map.prototype.get: the value, or NoAudio for undefined
MapGet(m, k) == IF MapHas(m, k) THEN m[MapIndex(m, k)].buf ELSE NoAudio
\* how many entries carry key k
MapCount(m, k) == Cardinality({i \in 1..Len(m) : m[i].key = k})

\* a set that appends even when the key is present
MapSetDup(m, k, b) == Append(m, [key |-> k, buf |-> b])
\* Map.prototype.set: overwrite in place, or append a new key
MapSet(m, k, b) ==
    IF MapHas(m, k)
    THEN [m EXCEPT ![MapIndex(m, k)] = [key |-> k, buf |-> b]]
    ELSE Append(m, [key |-> k, buf |-> b])

\* Map.prototype.delete
MapDelete(m, k) == SelectSeq(m, LAMBDA e : e.key # k)

\* ttsCache.keys().next().value
OldestKey(m) == m[1].key

\* an eviction that is one entry late
TtsStoreLate(m, k, b) ==
    LET c == MapSet(m, k, b)
    IN  IF Len(c) > TTS_CACHE_LIMIT + 1 THEN MapDelete(c, OldestKey(c)) ELSE c
\* an eviction of the newest key
TtsStoreNewest(m, k, b) ==
    LET c == MapSet(m, k, b)
    IN  IF Len(c) > TTS_CACHE_LIMIT THEN MapDelete(c, c[Len(c)].key) ELSE c
\* ttsCache.set(key, buf); if (ttsCache.size > TTS_CACHE_LIMIT) delete oldest
TtsStore(m, k, b) ==
    LET c == MapSet(m, k, b)
    IN  IF Len(c) > TTS_CACHE_LIMIT THEN MapDelete(c, OldestKey(c)) ELSE c

\* a lookup that returns the newest entry whatever its key
TtsLookupAny(m, k) == IF MapHas(m, k) THEN m[Len(m)].buf ELSE NoAudio
\* const hit = ttsCache.get(key);
TtsLookup(m, k) == MapGet(m, k)

VARIABLES
    ttsCache,     \* the Map key -> Buffer of the cache variant
    treq,         \* the POST /tts requests of the cache variant
    lastWriter,   \* history: per key, the request that stored it last (0: none)
    insAt,        \* history: per key, the ordinal of its insertion as a new key
    inserts,      \* history: number of new-key insertions so far
    evictions     \* history: number of evictions so far

ttsVars == <<ttsCache, treq, lastWriter, insAt, inserts, evictions>>

TReqIdle ==
    [pc |-> "idle", text |-> "", safeVoice |-> "", key |-> <<>>,
     synthVoice |-> "", calls |-> 0, status |-> 0, body |-> NoAudio,
     hit |-> FALSE, preds |-> {}, src |-> 0, racing |-> {}, evictedSince |-> FALSE]

TtsInit ==
    /\ ttsCache = <<>>
    /\ treq = [r \in Req |-> TReqIdle]
    /\ lastWriter = [k \in TtsKeys |-> 0]
    /\ insAt = [k \in TtsKeys |-> 0]
    /\ inserts = 0
    /\ evictions = 0

\* requests in flight between their first await and their response
TtsInFlight(r) == treq[r].pc \in {"synth1", "synth2"}

\* what a synthesis call can come to: the stream is read to its end ("ok"),
\* speech.create rejects ("throw"), or the stream breaks while it is read
SynthOutcomes == {"ok", "throw", "broken"}

\* lines 280-307: validation, cache lookup, first synthesis call issued
TtsStart(r, text, voice) ==
    /\ treq[r].pc = "idle"
    /\ \A q \in Req : q < r => treq[q].pc # "idle"
    /\ IF ~Truthy(text)
       THEN treq' = [treq EXCEPT ![r].pc = "done", ![r].text = text,
                                 ![r].status = 400]
       ELSE LET sv == SafeVoice(voice)
                key == ttsKey(text, sv)
                hit == TtsLookup(ttsCache, key)
                live == {q \in Req : /\ treq[q].pc = "done"
                                     /\ treq[q].status = 200
                                     /\ treq[q].key = key
                                     /\ ~treq[q].evictedSince}
                base == [treq[r] EXCEPT !.text = text,
                                        !.safeVoice = sv, !.key = key,
                                        !.preds = live,
                                        !.src = lastWriter[key],
                                        !.racing = {q \in Req : TtsInFlight(q)
                                                       /\ treq[q].key = key}]
            IN  IF hit # NoAudio
                THEN treq' = [treq EXCEPT ![r] =
                                 [base EXCEPT !.pc = "done", !.status = 200,
                                              !.body = hit, !.hit = TRUE]]
                ELSE treq' = [treq EXCEPT ![r] =
                                 [base EXCEPT !.pc = "synth1", !.calls = 1]]
    /\ UNCHANGED <<ttsCache, lastWriter, insAt, inserts, evictions>>

\* a catch that also empties the cache
TtsFailClears(r) ==
    /\ treq' = [treq EXCEPT ![r].pc = "done", ![r].status = 500]
    /\ ttsCache' = <<>>
    /\ UNCHANGED <<lastWriter, insAt, inserts, evictions>>
\* lines 337-340: the catch of the handler
TtsFail(r) ==
    /\ treq' = [treq EXCEPT ![r].pc = "done", ![r].status = 500]
    /\ UNCHANGED <<ttsCache, lastWriter, insAt, inserts, evictions>>

\* lines 321-336: the stream was read to its end; store, evict, respond
TtsFinish(r, synthVoice, take) ==
    LET key == treq[r].key
        buf == Audio(synthVoice, treq[r].text, take)
        c == TtsStore(ttsCache, key, buf)
        gone == (MapKeys(ttsCache) \cup {key}) \ MapKeys(c)
        fresh == ~MapHas(ttsCache, key)
    IN  /\ ttsCache' = c
        /\ treq' = [q \in Req |->
                      IF q = r
                      THEN [treq[r] EXCEPT !.pc = "done", !.status = 200,
                                           !.body = buf,
                                           !.synthVoice = synthVoice]
                      ELSE IF treq[q].pc = "done" /\ treq[q].key \in gone
                           THEN [treq[q] EXCEPT !.evictedSince = TRUE]
                           ELSE treq[q]]
        /\ lastWriter' = [lastWriter EXCEPT ![key] = r]
        /\ inserts' = IF fresh THEN inserts + 1 ELSE inserts
        /\ insAt' = IF fresh THEN [insAt EXCEPT ![key] = inserts + 1] ELSE insAt
        /\ evictions' = evictions + Cardinality(gone)

\* lines 301-319: the call with safeVoice; when it throws, fall back to alloy
\* (or rethrow when safeVoice is alloy already)
TtsSynth1Reply(r, out, take) ==
    /\ treq[r].pc = "synth1"
    /\ CASE out = "ok" -> TtsFinish(r, treq[r].safeVoice, take)
         [] out = "broken" -> TtsFail(r)
         [] out = "throw" ->
              IF treq[r].safeVoice # "alloy"
              THEN /\ treq' = [treq EXCEPT ![r].pc = "synth2",
                                           ![r].calls = treq[r].calls + 1]
                   /\ UNCHANGED <<ttsCache, lastWriter, insAt, inserts, evictions>>
              ELSE TtsFail(r)

\* lines 310-315: the alloy call; a throw reaches the outer catch
TtsSynth2Reply(r, out, take) ==
    /\ treq[r].pc = "synth2"
    /\ IF out = "ok" THEN TtsFinish(r, "alloy", take) ELSE TtsFail(r)

TtsNext ==
    \/ \E r \in Req, text \in Texts, voice \in RawVoices : TtsStart(r, text, voice)
    \/ \E r \in Req, out \in SynthOutcomes, take \in Takes : TtsSynth1Reply(r, out, take)
    \/ \E r \in Req, out \in SynthOutcomes, take \in Takes : TtsSynth2Reply(r, out, take)

(***************************************************************************)
(* The order in which the keys of ttsCache were last used (read by a hit   *)
(* or written by a store), kept beside the cache to compare its eviction   *)
(* with the "LRU" of the comments at lines 269 and 289.                    *)
(***************************************************************************)
VARIABLES
    recency,      \* history: the cached keys, least recently used first
    lastEvict     \* history: the key evicted last and the key that was least
                  \* recently used at that moment

lruVars == <<recency, lastEvict>>

NoEvict == [key |-> <<>>, lru |-> <<>>]

LruInit ==
    /\ recency = <<>>
    /\ lastEvict = NoEvict

\* key k becomes the most recently used one
Touch(order, k) == Append(SelectSeq(order, LAMBDA e : e # k), k)

\* the bookkeeping of a step of TtsNext: the request that answers 200 in it
\* used its key; an eviction is recorded with the least recently used key
LruTrack ==
    LET used == {r \in Req : treq[r].pc # "done" /\ treq'[r].pc = "done"
                                /\ treq'[r].status = 200}
    IN  IF used = {}
        THEN UNCHANGED lruVars
        ELSE LET r == CHOOSE q \in used : TRUE
                 k == treq'[r].key
                 order == Touch(recency, k)
                 gone == (MapKeys(ttsCache) \cup {k}) \ MapKeys(ttsCache')
             IN  /\ recency' = SelectSeq(order, LAMBDA e : MapHas(ttsCache', e))
                 /\ lastEvict' = IF gone = {} THEN lastEvict
                                  ELSE [key |-> CHOOSE g \in gone : TRUE,
                                        lru |-> Head(order)]

\* lines 280-297: one more POST /tts request, which finds its key cached and
\* is answered from the cache; the cache is left as it is
TtsHit(text, voice) ==
    /\ Truthy(text)
    /\ TtsLookup(ttsCache, ttsKey(text, SafeVoice(voice))) # NoAudio
    /\ recency' = Touch(recency, ttsKey(text, SafeVoice(voice)))
    /\ UNCHANGED <<ttsVars, lastEvict>>

LruNext ==
    \/ TtsNext /\ LruTrack
    \/ \E text \in Texts, voice \in RawVoices : TtsHit(text, voice)

(***************************************************************************)
(* The TTL media store and the POST /tts variant that fills it             *)
(* (part_002, first server; the same code is in server.js and part_004).   *)
(* Time is counted in units of the sweep period.                           *)
(***************************************************************************)
\* env MEDIA_TTL_MS (default one hour), configured to two sweep periods
MEDIA_TTL_MS == 2
\* setInterval(..., 60_000): one time unit
SWEEP_INTERVAL == 1

\* String.prototype.trim on the texts of the model
Trim(s) == IF s = " " THEN "" ELSE s
MediaTexts == {"", " ", "a"}
MediaVoices == {"", "nova"}

\* crypto.randomUUID(): ids are fresh; the n-th id issued is n
MediaIds == 1..(NumMediaReq + 1)
NoItem == [buf |-> NoAudio, ts |-> -1]

VARIABLES
    now,          \* Date.now()
    mediaStore,   \* the Map id -> { buf, mime, ts }, as a function on its ids
    nextId,       \* the next id randomUUID() returns
    sweepDue,     \* TRUE when a period has elapsed since the interval timer ran
    lastGet,      \* the last GET or HEAD /media/tts/:id and its answer
    mreq          \* the POST /tts requests of the media-store variant

mediaVars == <<now, mediaStore, nextId, sweepDue, lastGet, mreq>>

MapRemove(f, id) == [i \in (DOMAIN f) \ {id} |-> f[i]]
MapPut(f, id, v) == [i \in (DOMAIN f) \cup {id} |-> IF i = id THEN v ELSE f[i]]

\* a putMedia that stores under the first id again
PutMediaSameId(store, buf, t, id) ==
    [id |-> 1, store |-> MapPut(store, 1, [buf |-> buf, ts |-> t])]
\* a putMedia that reuses the id of an entry holding the same bytes
PutMediaDedupe(store, buf, t, id) ==
    IF \E i \in DOMAIN store : store[i].buf = buf
    THEN [id |-> CHOOSE i \in DOMAIN store : store[i].buf = buf, store |-> store]
    ELSE [id |-> id, store |-> MapPut(store, id, [buf |-> buf, ts |-> t])]
\* putMedia(buf, mime): store under a fresh id with ts = Date.now()
PutMedia(store, buf, t, id) ==
    [id |-> id, store |-> MapPut(store, id, [buf |-> buf, ts |-> t])]

\* a getMedia without the expiry check
GetMediaNoTtl(store, id, t) ==
    IF id \notin DOMAIN store
    THEN [item |-> NoItem, store |-> store]
    ELSE [item |-> store[id], store |-> store]
\* getMedia(id): null (NoItem) when absent or expired; an expired entry is deleted
GetMedia(store, id, t) ==
    IF id \notin DOMAIN store
    THEN [item |-> NoItem, store |-> store]
    ELSE IF t - store[id].ts > MEDIA_TTL_MS
         THEN [item |-> NoItem, store |-> MapRemove(store, id)]
         ELSE [item |-> store[id], store |-> store]

\* a sweep that also deletes the entries whose age is the TTL exactly
SweepStoreAtTtl(store, t) ==
    [i \in {j \in DOMAIN store : t - store[j].ts < MEDIA_TTL_MS} |-> store[i]]
\* the body of the interval callback: delete every expired entry
SweepStore(store, t) ==
    [i \in {j \in DOMAIN store : ~(t - store[j].ts > MEDIA_TTL_MS)} |-> store[i]]

MReqIdle ==
    [pc |-> "idle", input |-> "", voiceId |-> "", calls |-> 0, status |-> 0,
     body |-> NoAudio, id |-> 0, endAt |-> -1, repeats |-> {}]

NoGet == [id |-> 0, method |-> "", status |-> 0, body |-> NoAudio, age |-> -1]

MediaInit ==
    /\ now = 0
    /\ mediaStore = << >>
    /\ nextId = 1
    /\ sweepDue = FALSE
    /\ lastGet = NoGet
    /\ mreq = [r \in MReq |-> MReqIdle]

\* one sweep period passes; the interval timer becomes due
Tick ==
    /\ now < MaxClock
    /\ now' = now + SWEEP_INTERVAL
    /\ sweepDue' = TRUE
    /\ UNCHANGED <<mediaStore, nextId, lastGet, mreq>>

\* lines 62-67: the interval timer fires (not before it is due)
Sweep ==
    /\ sweepDue
    /\ mediaStore' = SweepStore(mediaStore, now)
    /\ sweepDue' = FALSE
    /\ UNCHANGED <<now, nextId, lastGet, mreq>>

\* lines 180-204: HEAD and GET /media/tts/:id without a Range header
MediaGet(id, method) ==
    LET got == GetMedia(mediaStore, id, now)
        age == IF id \in DOMAIN mediaStore THEN now - mediaStore[id].ts ELSE -1
    IN  /\ mediaStore' = got.store
        /\ lastGet' = [id |-> id, method |-> method,
                       status |-> IF got.item = NoItem THEN 404 ELSE 200,
                       body |-> IF got.item # NoItem /\ method = "GET"
                                THEN got.item.buf ELSE NoAudio,
                       age |-> age]
        /\ UNCHANGED <<now, nextId, sweepDue, mreq>>

\* history: the requests for (input, voiceId) that succeeded at most
\* MEDIA_TTL_MS ago
MEarlier(input, voiceId) ==
    {q \in MReq : /\ mreq[q].pc = "done" /\ mreq[q].status = 200
                  /\ mreq[q].input = input /\ mreq[q].voiceId = voiceId
                  /\ now - mreq[q].endAt <= MEDIA_TTL_MS}

\* lines 110-126: validation, then the synthesis call is issued
MTtsStart(r, text, voice) ==
    /\ mreq[r].pc = "idle"
    /\ \A q \in MReq : q < r => mreq[q].pc # "idle"
    /\ LET input == Trim(text)
           voiceId == IF Truthy(voice) THEN voice ELSE "verse"
       IN  IF ~Truthy(input)
           THEN mreq' = [mreq EXCEPT ![r].pc = "done", ![r].status = 400]
           ELSE mreq' = [mreq EXCEPT ![r].pc = "synth", ![r].input = input,
                                     ![r].voiceId = voiceId, ![r].calls = 1,
                                     ![r].repeats = MEarlier(input, voiceId)]
    /\ UNCHANGED <<now, mediaStore, nextId, sweepDue, lastGet>>

\* lines 128-137: the call returns (putMedia, 200 {audioUrl}) or fails (500)
MTtsReply(r, ok, take) ==
    /\ mreq[r].pc = "synth"
    /\ IF ok
       THEN LET buf == Audio(mreq[r].voiceId, mreq[r].input, take)
                put == PutMedia(mediaStore, buf, now, nextId)
            IN  /\ mediaStore' = put.store
                /\ nextId' = nextId + 1
                /\ mreq' = [mreq EXCEPT ![r].pc = "done", ![r].status = 200,
                                        ![r].body = buf, ![r].id = put.id,
                                        ![r].endAt = now]
       ELSE /\ mreq' = [mreq EXCEPT ![r].pc = "done", ![r].status = 500]
            /\ UNCHANGED <<mediaStore, nextId>>
    /\ UNCHANGED <<now, sweepDue, lastGet>>

MediaNext ==
    \/ Tick
    \/ Sweep
    \/ \E id \in MediaIds, method \in {"GET", "HEAD"} : MediaGet(id, method)
    \/ \E r \in MReq, text \in MediaTexts, voice \in MediaVoices : MTtsStart(r, text, voice)
    \/ \E r \in MReq, ok \in BOOLEAN, take \in Takes : MTtsReply(r, ok, take)

(***************************************************************************)
(* What the lookups of the media store have answered so far, kept beside   *)
(* the store.  randomUUID() cannot be guessed: a client names an id that   *)
(* was issued, or one that is never issued.                                *)
(***************************************************************************)
VARIABLES
    notFound,     \* history: the ids a lookup has answered 404 for
    served        \* history: the pairs (id, bytes) a GET has answered 200 with

lookupVars == <<notFound, served>>

LookupInit ==
    /\ notFound = {}
    /\ served = {}

\* the ids issued so far and an id that is never issued
KnownIds == (1..(nextId - 1)) \cup {NumMediaReq + 1}

\* the bookkeeping of a step of the media store: a new answer is noted
LookupTrack ==
    IF lastGet' = lastGet
    THEN UNCHANGED lookupVars
    ELSE /\ notFound' = IF lastGet'.status = 404
                        THEN notFound \cup {lastGet'.id} ELSE notFound
         /\ served' = IF lastGet'.status = 200 /\ lastGet'.method = "GET"
                      THEN served \cup {<<lastGet'.id, lastGet'.body>>}
                      ELSE served

\* the media store with the answers of its lookups noted
LookupNext ==
    /\ \/ Tick
       \/ Sweep
       \/ \E id \in KnownIds, method \in {"GET", "HEAD"} : MediaGet(id, method)
       \/ \E r \in MReq, text \in MediaTexts, voice \in MediaVoices :
             MTtsStart(r, text, voice)
       \/ \E r \in MReq, ok \in BOOLEAN, take \in Takes : MTtsReply(r, ok, take)
    /\ LookupTrack

(***************************************************************************)
(* GET /media/tts/:id with a Range header (part_002 189-224; the same code *)
(* is in server.js and part_004)                                           *)
(***************************************************************************)
\* buf.length: the two renderings differ in length
BufLength(buf) == buf.take + 1
\* the bytes of a Buffer; byte i of an audio is the pair (audio, i)
Bytes(buf) == [i \in 1..BufLength(buf) |-> [of |-> buf, at |-> i - 1]]

Min(a, b) == IF a < b THEN a ELSE b
\* Buffer.prototype.subarray(start, end) on 0 <= start: bytes start..end-1,
\* end clamped to the length, empty when start >= end
Subarray(bytes, start, end) == SubSeq(bytes, start + 1, Min(end, Len(bytes)))

\* byte positions a client may name; None: the position is left out
None == -1
RangeNums == {0, 1, 2, 10}
RangePositions == {None} \cup RangeNums

\* String(n): the decimal digits of n
RECURSIVE Digits(_)
Digits(n) == IF n < 10 THEN <<n>> ELSE Append(Digits(n \div 10), n % 10)
\* parseInt(s, 10) on a string of digits
RECURSIVE ParseInt(_)
ParseInt(ds) ==
    IF Len(ds) = 1 THEN ds[1]
    ELSE 10 * ParseInt(SubSeq(ds, 1, Len(ds) - 1)) + ds[Len(ds)]

\* the Range header `bytes=${first}-${last}` as the client writes it
RangeHeader(first, last) ==
    [unit |-> "bytes",
     first |-> IF first = None THEN <<>> ELSE Digits(first),
     last |-> IF last = None THEN <<>> ELSE Digits(last)]
\* no Range header, and one that /^bytes=(\d*)-(\d*)$/ does not match
NoRange == [unit |-> "", first |-> <<>>, last |-> <<>>]
BadRange == [unit |-> "items", first |-> <<0>>, last |-> <<1>>]

\* the match of /^bytes=(\d*)-(\d*)$/
RangeMatches(range) == range.unit = "bytes"

\* `bytes ${start}-${end}/${total}` and `bytes */${total}`
ContentRange(start, end, total) == <<"bytes ", start, "-", end, "/", total>>
ContentRangeUnsatisfied(total) == <<"bytes */", total>>
NoContentRange == <<>>

\* let start = m[1] ? parseInt(m[1], 10) : 0;
RangeStart(range, total) ==
    IF range.first # <<>> THEN ParseInt(range.first) ELSE 0
\* let end = m[2] ? parseInt(m[2], 10) : total - 1;
RangeEnd(range, total) ==
    IF range.last # <<>> THEN ParseInt(range.last) ELSE total - 1

\* a test that lets start > end through
RangeUnsatisfiableLax(start, end, total) == start >= total
\* isNaN(start) || isNaN(end) || start > end || start >= total
\* (parseInt of a non-empty string of digits is never NaN)
RangeUnsatisfiable(start, end, total) == start > end \/ start >= total

\* lines 193-223: the response of GET for a live entry
RangeResponse(buf, range) ==
    LET total == BufLength(buf)
        start == RangeStart(range, total)
        end0 == RangeEnd(range, total)
        end == Min(end0, total - 1)
        chunk == Subarray(Bytes(buf), start, end + 1)
    IN  IF range = NoRange \/ ~RangeMatches(range)
        THEN [status |-> 200, body |-> Bytes(buf), contentRange |-> NoContentRange,
              contentLength |-> total]
        ELSE IF RangeUnsatisfiable(start, end0, total)
        THEN [status |-> 416, body |-> <<>>,
              contentRange |-> ContentRangeUnsatisfied(total), contentLength |-> 0]
        ELSE [status |-> 206, body |-> chunk,
              contentRange |-> ContentRange(start, end, total),
              contentLength |-> Len(chunk)]

VARIABLES
    lastRange     \* the last GET /media/tts/:id of the Range-aware handler

rangeVars == <<lastRange>>

NoRangeGet ==
    [id |-> 0, first |-> None, last |-> None, range |-> NoRange, total |-> -1,
     bytes |-> <<>>, status |-> 0, body |-> <<>>, contentRange |-> NoContentRange,
     contentLength |-> 0]

RangeInit == lastRange = NoRangeGet

\* lines 189-224: GET /media/tts/:id with the header `range`
MediaGetRange(id, first, last, range) ==
    LET got == GetMedia(mediaStore, id, now)
        live == got.item # NoItem
        resp == IF live THEN RangeResponse(got.item.buf, range)
                ELSE [status |-> 404, body |-> <<>>,
                      contentRange |-> NoContentRange, contentLength |-> 0]
    IN  /\ mediaStore' = got.store
        /\ lastRange' = [id |-> id, first |-> first, last |-> last,
                         range |-> range,
                         total |-> IF live THEN BufLength(got.item.buf) ELSE -1,
                         bytes |-> IF live THEN Bytes(got.item.buf) ELSE <<>>,
                         status |-> resp.status, body |-> resp.body,
                         contentRange |-> resp.contentRange,
                         contentLength |-> resp.contentLength]
        /\ UNCHANGED <<now, nextId, sweepDue, lastGet, mreq>>

\* the media store filled by the first POST /tts request, under GETs of the
\* ids issued so far and of the next one, with and without a Range header
RangeNext ==
    \/ Tick /\ UNCHANGED rangeVars
    \/ Sweep /\ UNCHANGED rangeVars
    \/ \E text \in MediaTexts, voice \in MediaVoices :
          MTtsStart(1, text, voice) /\ UNCHANGED rangeVars
    \/ \E ok \in BOOLEAN, take \in Takes :
          MTtsReply(1, ok, take) /\ UNCHANGED rangeVars
    \/ \E id \in 1..nextId, first \in RangePositions, last \in RangePositions :
          MediaGetRange(id, first, last, RangeHeader(first, last))
    \/ \E id \in 1..nextId, range \in {NoRange, BadRange} :
          MediaGetRange(id, None, None, range)

(***************************************************************************)
(* Vendor HTTP replies seen through fetch: the call throws (network error, *)
(* body unreadable), or a status and a body arrive.                        *)
(***************************************************************************)
Throw == [status |-> 0, body |-> "throw"]
HttpStatuses == {200, 401, 500}
\* Response.ok
Ok(status) == status >= 200 /\ status <= 299

\* create bodies: not JSON, JSON without id, JSON with id
CreateBodies == {"notjson", "noid", "id"}
\* poll bodies: not JSON; JSON with neither result_url nor status 'error';
\* JSON with result_url; JSON with status 'error'; JSON with both
PollBodies == {"notjson", "pending", "result", "error", "error_result"}
CreateReplies == {Throw} \cup [status : HttpStatuses, body : CreateBodies]
PollReplies == {Throw} \cup [status : HttpStatuses, body : PollBodies]
\* transcription bodies
SttBodies == {"notjson", "json"}
SttReplies == {Throw} \cup [status : HttpStatuses, body : SttBodies]

(***************************************************************************)
(* POST /speak with the 24-attempt polling loop (server.js 843-928; the    *)
(* same loop is in part_001 and part_002)                                  *)
(***************************************************************************)
\* for (let i = 0; i < 24; i++)
MAX_POLLS == 24
\* text.trim().length < 3
MIN_TEXT == 3

SpeakTexts == {"", "ab", "abc"}
TrimLength(t) == IF t = "" THEN 0 ELSE IF t = "ab" THEN 2 ELSE 3
ImageUrls == {"", "img"}

\* a loop test that lets one more attempt through
SpeakLoopOneMore(i) == i <= MAX_POLLS
\* the loop test i < 24
SpeakLoopTest(i) == i < MAX_POLLS

\* lines 846-848: the status of the early return, 0 to go on
SpeakValidate(text, imageUrl, hasKey) ==
    IF ~Truthy(text) \/ ~Truthy(imageUrl) THEN 400
    ELSE IF TrimLength(text) < MIN_TEXT THEN 400
    ELSE IF ~hasKey THEN 500
    ELSE 0

\* a create verdict that polls although the created job has no id
SpeakCreateVerdictNoIdCheck(reply) ==
    IF reply = Throw THEN 500
    ELSE IF ~Ok(reply.status) THEN reply.status
    ELSE IF reply.body = "notjson" THEN 502
    ELSE 0
\* lines 869-888 and the catch: the status answered after the create call,
\* 0 to enter the polling loop
SpeakCreateVerdict(reply) ==
    IF reply = Throw THEN 500
    ELSE IF ~Ok(reply.status) THEN reply.status
    ELSE IF reply.body = "notjson" THEN 502
    ELSE IF reply.body = "noid" THEN 502
    ELSE 0

\* a poll verdict that masks the vendor's status as 502
SpeakPollVerdictMasked(reply) ==
    IF reply = Throw THEN 500
    ELSE IF ~Ok(reply.status) THEN 502
    ELSE IF reply.body = "notjson" THEN 502
    ELSE IF reply.body \in {"result", "error_result"} THEN 200
    ELSE IF reply.body = "error" THEN 502
    ELSE 0
\* a poll verdict that keeps polling after the vendor reported an error
SpeakPollVerdictLenient(reply) ==
    IF reply = Throw THEN 500
    ELSE IF ~Ok(reply.status) THEN reply.status
    ELSE IF reply.body = "notjson" THEN 502
    ELSE IF reply.body \in {"result", "error_result"} THEN 200
    ELSE 0
\* lines 897-919 and the catch: the status answered after a poll, 0 to go on
\* with the loop (200: result_url present, break)
SpeakPollVerdict(reply) ==
    IF reply = Throw THEN 500
    ELSE IF ~Ok(reply.status) THEN reply.status
    ELSE IF reply.body = "notjson" THEN 502
    ELSE IF reply.body \in {"result", "error_result"} THEN 200
    ELSE IF reply.body = "error" THEN 502
    ELSE 0

\* the poll got a result_url, a status 'error', a non-OK status or a body
\* that is not JSON
PollIsTerminal(reply) ==
    /\ reply # Throw
    /\ \/ ~Ok(reply.status)
       \/ reply.body \in {"notjson", "result", "error", "error_result"}

\* the poll got an OK JSON body with no result_url and a status other than error
PollIsPending(reply) ==
    reply # Throw /\ Ok(reply.status) /\ reply.body = "pending"

\* history: what an OK vendor reply carried when it was not a usable JSON body
\* ("" otherwise)
CreateCause(reply) ==
    IF reply # Throw /\ Ok(reply.status) /\ reply.body \in {"notjson", "noid"}
    THEN "create_" \o reply.body ELSE ""
PollCause(reply) ==
    IF reply # Throw /\ Ok(reply.status) /\ reply.body \in {"notjson", "error"}
    THEN "poll_" \o reply.body ELSE ""

VARIABLES
    spk,          \* the POST /speak request (24-attempt handler)
    stt           \* the POST /stt request (fetch-based handler)

proxyVars == <<spk, stt>>

SpkIdle ==
    [pc |-> "idle", i |-> 0, creates |-> 0, polls |-> 0, responses |-> 0,
     status |-> 0, looped |-> FALSE, allPending |-> FALSE, terminal |-> FALSE,
     nonOk |-> 0, callsAtNonOk |-> 0, cause |-> ""]

SttIdle ==
    [pc |-> "idle", calls |-> 0, responses |-> 0, status |-> 0, nonOk |-> 0]

ProxyInit ==
    /\ spk = SpkIdle
    /\ stt = SttIdle

\* res.status(s).json(...): one more response sent, the handler returns
SpeakRespond(rec, s) ==
    [rec EXCEPT !.pc = "done", !.status = s, !.responses = rec.responses + 1]

\* lines 843-867: validation, then the create call is issued
SpeakStart(text, imageUrl, hasKey) ==
    /\ spk.pc = "idle"
    /\ LET v == SpeakValidate(text, imageUrl, hasKey)
       IN  IF v # 0
           THEN spk' = SpeakRespond(spk, v)
           ELSE spk' = [spk EXCEPT !.pc = "create", !.creates = 1]
    /\ UNCHANGED stt

\* the top of the for loop with index i: sleep before the poll, or leave the
\* loop with videoUrl null (lines 892-893, 922)
SpeakLoopTop(rec, i) ==
    IF SpeakLoopTest(i)
    THEN [rec EXCEPT !.pc = "sleep", !.i = i]
    ELSE SpeakRespond([rec EXCEPT !.i = i], 504)

\* lines 869-892: the create call returns or throws
SpeakCreateReply(reply) ==
    /\ spk.pc = "create"
    /\ LET v == SpeakCreateVerdict(reply)
           noted == IF reply # Throw /\ ~Ok(reply.status)
                    THEN [spk EXCEPT !.nonOk = reply.status,
                                     !.callsAtNonOk = spk.creates + spk.polls]
                    ELSE [spk EXCEPT !.cause = CreateCause(reply)]
       IN  IF v # 0
           THEN spk' = SpeakRespond(noted, v)
           ELSE spk' = SpeakLoopTop([noted EXCEPT !.looped = TRUE,
                                                !.allPending = TRUE], 0)
    /\ UNCHANGED stt

\* lines 893-896: the sleep is over, the poll request is issued
SpeakSleepDone ==
    /\ spk.pc = "sleep"
    /\ spk' = [spk EXCEPT !.pc = "poll", !.polls = spk.polls + 1]
    /\ UNCHANGED stt

\* lines 897-923: the poll returns or throws
SpeakPollReply(reply) ==
    /\ spk.pc = "poll"
    /\ LET v == SpeakPollVerdict(reply)
           noted == [spk EXCEPT
                       !.allPending = spk.allPending /\ PollIsPending(reply),
                       !.terminal = spk.terminal \/ PollIsTerminal(reply),
                       !.cause = IF PollCause(reply) # "" THEN PollCause(reply)
                                 ELSE spk.cause,
                       !.nonOk = IF reply # Throw /\ ~Ok(reply.status)
                                 THEN reply.status ELSE spk.nonOk,
                       !.callsAtNonOk = IF reply # Throw /\ ~Ok(reply.status)
                                        THEN spk.creates + spk.polls
                                        ELSE spk.callsAtNonOk]
       IN  IF v # 0
           THEN spk' = SpeakRespond(noted, v)
           ELSE spk' = SpeakLoopTop(noted, spk.i + 1)
    /\ UNCHANGED stt

\* the next request to POST /speak
SpeakReset ==
    /\ spk.pc = "done"
    /\ spk' = SpkIdle
    /\ UNCHANGED stt

(***************************************************************************)
(* POST /stt through fetch (server.js 1007-1042)                           *)
(***************************************************************************)
\* lines 1032-1041: relay a non-OK status; r.json() throws on a non-JSON body
SttVerdict(reply) ==
    IF reply = Throw THEN 500
    ELSE IF ~Ok(reply.status) THEN reply.status
    ELSE IF reply.body = "notjson" THEN 500
    ELSE 200

\* lines 1007-1030: validation, then the transcription call is issued
SttStart(hasKey, hasFile) ==
    /\ stt.pc = "idle"
    /\ IF ~hasKey
       THEN stt' = [stt EXCEPT !.pc = "done", !.status = 500, !.responses = 1]
       ELSE IF ~hasFile
            THEN stt' = [stt EXCEPT !.pc = "done", !.status = 400, !.responses = 1]
            ELSE stt' = [stt EXCEPT !.pc = "fetch", !.calls = 1]
    /\ UNCHANGED spk

\* lines 1032-1041: the transcription call returns or throws
SttReply(reply) ==
    /\ stt.pc = "fetch"
    /\ stt' = [stt EXCEPT !.pc = "done", !.status = SttVerdict(reply),
                          !.responses = stt.responses + 1,
                          !.nonOk = IF reply # Throw /\ ~Ok(reply.status)
                                    THEN reply.status ELSE 0]
    /\ UNCHANGED spk

\* the next request to POST /stt
SttReset ==
    /\ stt.pc = "done"
    /\ stt' = SttIdle
    /\ UNCHANGED spk

ProxyNext ==
    \/ \E text \in SpeakTexts, imageUrl \in ImageUrls, hasKey \in BOOLEAN :
          SpeakStart(text, imageUrl, hasKey)
    \/ \E reply \in CreateReplies : SpeakCreateReply(reply)
    \/ SpeakSleepDone
    \/ \E reply \in PollReplies : SpeakPollReply(reply)
    \/ SpeakReset
    \/ \E hasKey \in BOOLEAN, hasFile \in BOOLEAN : SttStart(hasKey, hasFile)
    \/ \E reply \in SttReplies : SttReply(reply)
    \/ SttReset

(***************************************************************************)
(* POST /tts-eleven: with the OpenAI fallback (part_003 100-147) and with  *)
(* the vendor status relayed (server.js 969-999).  Both put the audio into *)
(* the media store.                                                        *)
(***************************************************************************)
ElevenVariants == {"fallback", "relay"}
ElevenVoices == {"", "Rachel"}
\* the ElevenLabs call: fetch rejects or the body cannot be read (Throw), or a
\* status arrives
ElevenReplies == {Throw} \cup [status : HttpStatuses, body : {"audio"}]

\* a handler that falls back to OpenAI whatever its variant
ElevenFallsBackAlways(variant) == TRUE
\* only the part_003 handler goes on to openai.audio.speech.create after a
\* failed ElevenLabs call
ElevenFallsBack(variant) == variant = "fallback"

VARIABLES
    elv           \* the POST /tts-eleven request

elevenVars == <<elv>>

ElvIdle ==
    [pc |-> "idle", variant |-> "", input |-> "", voice |-> "", calls |-> 0,
     elevenCalls |-> 0, openaiCalls |-> 0, failed |-> 0, status |-> 0,
     responses |-> 0, provider |-> "", body |-> NoAudio, id |-> 0]

ElevenInit == elv = ElvIdle

ElvRespond(rec, s) ==
    [rec EXCEPT !.pc = "done", !.status = s, !.responses = rec.responses + 1]

\* const id = putMedia(buf, 'audio/mpeg'); return res.json({ audioUrl, provider, voice })
ElvStore(rec, voice, provider, take) ==
    LET buf == Audio(voice, rec.input, take)
        put == PutMedia(mediaStore, buf, now, nextId)
    IN  /\ mediaStore' = put.store
        /\ nextId' = nextId + 1
        /\ elv' = [ElvRespond(rec, 200) EXCEPT !.provider = provider,
                                               !.body = buf, !.id = put.id]

\* the OpenAI call of the fallback is issued
ElvCallOpenAi(rec) ==
    [rec EXCEPT !.pc = "openai", !.calls = rec.calls + 1,
                !.openaiCalls = rec.openaiCalls + 1]

\* validation, then the first synthesis call is issued
ElvStart(variant, text, voice, hasKey) ==
    /\ elv.pc = "idle"
    /\ LET input == Trim(text)
           base == [elv EXCEPT !.variant = variant, !.input = input,
                               !.voice = IF Truthy(voice) THEN voice ELSE "Rachel"]
       IN  IF ~Truthy(input) THEN elv' = ElvRespond(base, 400)
           ELSE IF hasKey
                THEN elv' = [base EXCEPT !.pc = "eleven", !.calls = 1,
                                         !.elevenCalls = 1]
                ELSE IF ElevenFallsBack(variant)
                     THEN elv' = ElvCallOpenAi(base)
                     ELSE elv' = ElvRespond(base, 500)
    /\ UNCHANGED <<mediaStore, nextId>>

\* the ElevenLabs call returns or throws
ElvElevenReply(reply, take) ==
    /\ elv.pc = "eleven"
    /\ IF reply # Throw /\ Ok(reply.status)
       THEN ElvStore(elv, elv.voice, "elevenlabs", take)
       ELSE /\ LET rec == [elv EXCEPT !.failed = elv.failed + 1]
               IN  IF ElevenFallsBack(elv.variant)
                   THEN elv' = ElvCallOpenAi(rec)
                   ELSE elv' = ElvRespond(rec, IF reply = Throw THEN 500
                                               ELSE reply.status)
            /\ UNCHANGED <<mediaStore, nextId>>

\* the OpenAI call of the fallback returns or throws
ElvOpenAiReply(ok, take) ==
    /\ elv.pc = "openai"
    /\ IF ok
       THEN ElvStore(elv, "alloy", "openai", take)
       ELSE /\ elv' = ElvRespond([elv EXCEPT !.failed = elv.failed + 1], 500)
            /\ UNCHANGED <<mediaStore, nextId>>

ElevenNext ==
    \/ \E variant \in ElevenVariants, text \in MediaTexts, voice \in ElevenVoices,
          hasKey \in BOOLEAN : ElvStart(variant, text, voice, hasKey)
    \/ \E reply \in ElevenReplies, take \in Takes : ElvElevenReply(reply, take)
    \/ \E ok \in BOOLEAN, take \in Takes : ElvOpenAiReply(ok, take)

\* one POST /tts of the cache variant and one POST /tts-eleven
FallbackNext ==
    \/ /\ \/ \E text \in Texts, voice \in RawVoices : TtsStart(1, text, voice)
          \/ \E out \in SynthOutcomes, take \in Takes : TtsSynth1Reply(1, out, take)
          \/ \E out \in SynthOutcomes, take \in Takes : TtsSynth2Reply(1, out, take)
       /\ UNCHANGED <<elevenVars, mediaVars>>
    \/ /\ ElevenNext
       /\ UNCHANGED <<ttsVars, now, sweepDue, lastGet, mreq>>

(***************************************************************************)
(* POST /speak built on speakToVideoUrl, with a 45-second polling budget   *)
(* (server.js 556-616; the same code is in part_003).  Time in ms.         *)
(***************************************************************************)
\* while (Date.now() - start < 45000)
POLL_BUDGET_MS == 45000
\* await sleep(900)
POLL_SLEEP_MS == 900
\* how long a poll request may take
FetchLatencies == {0, 600, 45000}

\* lines 561-562, 609: the early 400 of the handler and the two throws of
\* speakToVideoUrl before any request; 0 to go on
SvValidate(text, imageUrl, hasKey) ==
    IF ~Truthy(text) \/ ~Truthy(imageUrl) THEN 400
    ELSE IF ~hasKey THEN 500
    ELSE 0

\* lines 579-582: what speakToVideoUrl throws after the create call ("" to go on)
SvCreateError(reply) ==
    IF reply = Throw THEN "fetch_failed"
    ELSE IF ~Ok(reply.status) THEN "did_create_status"
    ELSE IF reply.body = "notjson" THEN "json_syntax_error"
    ELSE IF reply.body = "noid" THEN "did_create_no_id"
    ELSE ""

\* lines 592-596: what speakToVideoUrl throws after a poll ("" when it does
\* not throw)
SvPollError(reply) ==
    IF reply = Throw THEN "fetch_failed"
    ELSE IF ~Ok(reply.status) THEN "did_poll_status"
    ELSE IF reply.body = "notjson" THEN "json_syntax_error"
    ELSE IF reply.body \in {"result", "error_result"} THEN ""
    ELSE IF reply.body = "error" THEN "did_render_error"
    ELSE ""

\* lines 612-615: the catch of the handler answers 500 whatever was thrown
SvCatchStatus(message) == 500

VARIABLES
    sv            \* the POST /speak request (speakToVideoUrl handler)

svVars == <<sv>>

SvIdle ==
    [pc |-> "idle", elapsed |-> 0, polls |-> 0, responses |-> 0, status |-> 0,
     detail |-> "", timedOut |-> FALSE]

SvInit == sv = SvIdle

SvRespond(rec, s, detail) ==
    [rec EXCEPT !.pc = "done", !.status = s, !.detail = detail,
                !.responses = rec.responses + 1]

\* the handler's catch: res.status(500).json({error, detail: e.message})
SvCatch(rec, message) == SvRespond(rec, SvCatchStatus(message), message)

\* lines 602-610, 561-578: validation, then the create call is issued
SvStart(text, imageUrl, hasKey) ==
    /\ sv.pc = "idle"
    /\ LET v == SvValidate(text, imageUrl, hasKey)
       IN  IF v = 400 THEN sv' = SvRespond(sv, 400, "")
           ELSE IF v # 0 THEN sv' = SvCatch(sv, "did_api_key_missing")
           ELSE sv' = [sv EXCEPT !.pc = "create"]

\* the while test of line 586 at elapsed time e: sleep, or throw did_timeout
SvLoopTop(rec, e) ==
    IF e < POLL_BUDGET_MS
    THEN [rec EXCEPT !.pc = "sleep", !.elapsed = e]
    ELSE SvCatch([rec EXCEPT !.elapsed = e, !.timedOut = TRUE], "did_timeout")

\* lines 579-586: the create call returns or throws; start = Date.now()
SvCreateReply(reply) ==
    /\ sv.pc = "create"
    /\ LET err == SvCreateError(reply)
       IN  IF err # "" THEN sv' = SvCatch(sv, err)
           ELSE sv' = SvLoopTop(sv, 0)

\* lines 587-591: the sleep is over, the poll request is issued
SvSleepDone ==
    /\ sv.pc = "sleep"
    /\ sv' = [sv EXCEPT !.pc = "poll", !.polls = sv.polls + 1,
                        !.elapsed = sv.elapsed + POLL_SLEEP_MS]

\* lines 592-598: the poll returns or throws after some latency
SvPollReply(reply, latency) ==
    /\ sv.pc = "poll"
    /\ LET err == SvPollError(reply)
           e == sv.elapsed + latency
       IN  IF err # "" THEN sv' = SvCatch([sv EXCEPT !.elapsed = e], err)
           ELSE IF reply.body \in {"result", "error_result"}
                THEN sv' = SvRespond([sv EXCEPT !.elapsed = e], 200, "")
                ELSE sv' = SvLoopTop(sv, e)

\* the next request to POST /speak
SvReset ==
    /\ sv.pc = "done"
    /\ sv' = SvIdle

SvNext ==
    \/ \E text \in SpeakTexts, imageUrl \in ImageUrls, hasKey \in BOOLEAN :
          SvStart(text, imageUrl, hasKey)
    \/ \E reply \in CreateReplies : SvCreateReply(reply)
    \/ SvSleepDone
    \/ \E reply \in PollReplies, latency \in FetchLatencies : SvPollReply(reply, latency)
    \/ SvReset

(***************************************************************************)
(* POST /ask: the five shapes of the handler found in the repository       *)
(***************************************************************************)
\* a field the JSON body does not have
Undefined == "<undefined>"
AskFields == {Undefined, "", " ", "q", "p"}

\* the handlers, by how they pick and test the user message
AskVariants ==
    {"trimmed",       \* (prompt ?? question)?.toString().trim(), !content -> 400
     "coalesced",     \* prompt ?? question, !content -> 400
     "promptOnly",    \* { prompt }, !prompt -> 400
     "questionOnly",  \* { question }, !question -> 400
     "unchecked"}     \* { question }, no test

\* a ?? b
Coalesce(a, b) == IF a # Undefined THEN a ELSE b
\* !x on a string or undefined
Falsy(x) == x = Undefined \/ x = ""

\* the user message the handler would send
AskContent(variant, question, prompt) ==
    CASE variant = "trimmed" ->
            LET c == Coalesce(prompt, question)
            IN  IF c = Undefined THEN Undefined ELSE Trim(c)
      [] variant = "coalesced" -> Coalesce(prompt, question)
      [] variant = "promptOnly" -> prompt
      [] OTHER -> question

\* if (!content) return res.status(400)...: absent from the unchecked handler
AskRejects(variant, content) == variant # "unchecked" /\ Falsy(content)

\* what the chat-completion call can come to: a choice with content, a reply
\* without choices, a rejection
ChatOutcomes == {"answer", "nochoices", "throw"}

\* the status after the call: choices?.[0]?.message?.content ?? '' in the
\* checked handlers, choices[0].message.content (a TypeError without choices)
\* in the unchecked one; the catch answers 500
AskVerdict(variant, out) ==
    IF out = "throw" THEN 500
    ELSE IF out = "nochoices" /\ variant = "unchecked" THEN 500
    ELSE 200

VARIABLES
    ask           \* the POST /ask request

askVars == <<ask>>

AskIdle ==
    [pc |-> "idle", variant |-> "", question |-> Undefined, prompt |-> Undefined,
     content |-> Undefined, calls |-> 0, status |-> 0, responses |-> 0]

AskInit == ask = AskIdle

\* destructuring, validation, then the chat-completion call is issued
AskStart(variant, question, prompt) ==
    /\ ask.pc = "idle"
    /\ LET content == AskContent(variant, question, prompt)
           base == [ask EXCEPT !.variant = variant, !.question = question,
                               !.prompt = prompt, !.content = content]
       IN  IF AskRejects(variant, content)
           THEN ask' = [base EXCEPT !.pc = "done", !.status = 400,
                                    !.responses = 1]
           ELSE ask' = [base EXCEPT !.pc = "call", !.calls = 1]

\* the chat-completion call returns or rejects
AskReply(out) ==
    /\ ask.pc = "call"
    /\ ask' = [ask EXCEPT !.pc = "done", !.status = AskVerdict(ask.variant, out),
                          !.responses = ask.responses + 1]

\* the next request to POST /ask
AskReset ==
    /\ ask.pc = "done"
    /\ ask' = AskIdle

AskNext ==
    \/ \E variant \in AskVariants, question \in AskFields, prompt \in AskFields :
          AskStart(variant, question, prompt)
    \/ \E out \in ChatOutcomes : AskReply(out)
    \/ AskReset

(***************************************************************************)
(* The prefetch queue of rendered videos: POST /queue/prefetch and         *)
(* GET /queue/next (part_003 253-256, 369-435)                             *)
(***************************************************************************)
\* env PREFETCH_SIZE (default 4), configured small
MAX_Q == 3

\* req.body.count: 0 stands for an absent or zero count
Counts == {-1, 0, 1, 4}
\* what the chat vendor returns for the batch prompt: the call rejects, the
\* content holds no JSON array, or it holds an array of strings ("" is an
\* empty string, dropped by filter(Boolean))
ChatBatches ==
    {<<>>, <<"q1">>, <<"q1", "q1">>, <<"q2", "q1">>, <<"", "q2", "q3">>,
     <<"q1", "q2", "q3">>, <<"q4", "q1">>}
BatchReplies == [kind : {"throw", "notjson"}, qs : {<<>>}]
                    \cup [kind : {"array"}, qs : ChatBatches]

\* the url the video vendor returns for a question
VideoUrl(q) == "url_" \o q
NoVideo == [question |-> "", url |-> ""]

\* const want = Math.min(Number(req.body?.count || MAX_Q), MAX_Q);
Want(count) == Min(IF count = 0 THEN MAX_Q ELSE count, MAX_Q)

\* qs.filter(Boolean)
FilterBoolean(qs) == SelectSeq(qs, LAMBDA q : q # "")

\* for (const q of qs) { if (!exist.has(q)) pick.push(q);
\*                       if (pick.length >= want) break; }
RECURSIVE PickLoop(_, _, _, _)
PickLoop(qs, exist, want, pick) ==
    IF qs = <<>> THEN pick
    ELSE LET p == IF Head(qs) \notin exist THEN Append(pick, Head(qs)) ELSE pick
         IN  IF Len(p) >= want THEN p
             ELSE PickLoop(Tail(qs), exist, want, p)

\* the indices into pick of the group that starts at index `first`: groups of
\* two, in order
GroupAt(pick, first) == {i \in 1..Len(pick) : i >= first /\ i < first + 2}

\* a shift that takes the newest item
QueuePop(q) ==
    IF q = <<>> THEN [item |-> NoVideo, rest |-> q]
    ELSE [item |-> q[Len(q)], rest |-> SubSeq(q, 1, Len(q) - 1)]
\* READY_Q.shift(): the oldest item (NoVideo for undefined) and what is left
QueueShift(q) ==
    IF q = <<>> THEN [item |-> NoVideo, rest |-> q]
    ELSE [item |-> Head(q), rest |-> Tail(q)]

\* a push that never drops
QueuePushNoDrop(q, item) == Append(q, item)
\* READY_Q.push(item); if (READY_Q.length > MAX_Q) READY_Q.shift();
QueuePush(q, item) ==
    LET pushed == Append(q, item)
    IN  IF Len(pushed) > MAX_Q THEN Tail(pushed) ELSE pushed

VARIABLES
    READY_Q,      \* the array of { question, url }
    prefetching,  \* the flag of a running prefetch job
    job,          \* the background job started by POST /queue/prefetch
    lastPrefetch, \* the last POST /queue/prefetch and its answer
    lastNext      \* the last GET /queue/next and its answer

queueVars == <<READY_Q, prefetching, job, lastPrefetch, lastNext>>

NoJob == [pc |-> "none", want |-> 0, pick |-> <<>>, pending |-> {}]
NoPrefetch ==
    [status |-> 0, queued |-> 0, prefetching |-> FALSE, started |-> FALSE,
     qBefore |-> <<>>, flagBefore |-> FALSE]
NoNext == [status |-> 0, item |-> NoVideo, qBefore |-> <<>>]

QueueInit ==
    /\ READY_Q = <<>>
    /\ prefetching = FALSE
    /\ job = NoJob
    /\ lastPrefetch = NoPrefetch
    /\ lastNext = NoNext

\* a handler that starts a job whatever the flag says
QueuePrefetchAlways(count) ==
    /\ lastPrefetch' = [status |-> 200, queued |-> Len(READY_Q),
                        prefetching |-> FALSE, started |-> TRUE,
                        qBefore |-> READY_Q, flagBefore |-> prefetching]
    /\ prefetching' = TRUE
    /\ job' = [pc |-> "chat", want |-> Want(count), pick |-> <<>>, pending |-> {}]
    /\ UNCHANGED <<READY_Q, lastNext>>
\* lines 369-374, 424: POST /queue/prefetch; when no job runs, one is started
\* (it runs up to its chat call) before the answer is sent
QueuePrefetch(count) ==
    /\ lastPrefetch' = [status |-> 200, queued |-> Len(READY_Q),
                        prefetching |-> prefetching, started |-> ~prefetching,
                        qBefore |-> READY_Q, flagBefore |-> prefetching]
    /\ IF prefetching
       THEN UNCHANGED <<prefetching, job>>
       ELSE /\ prefetching' = TRUE
            /\ job' = [NoJob EXCEPT !.pc = "chat", !.want = Want(count)]
    /\ UNCHANGED <<READY_Q, lastNext>>

\* a job that ends without the finally
JobEndKeepsFlag ==
    /\ UNCHANGED prefetching
    /\ job' = [pc |-> "none", want |-> 0, pick |-> <<>>, pending |-> {}]
\* finally { prefetching = false; }
JobEnd ==
    /\ prefetching' = FALSE
    /\ job' = NoJob

\* lines 378-405, 418-422: the chat call returns or rejects; the questions
\* are picked and the first group of renders is started
JobChatReply(reply) ==
    /\ job.pc = "chat"
    /\ LET qs == IF reply.kind = "array" THEN FilterBoolean(reply.qs) ELSE <<>>
           exist == {READY_Q[i].question : i \in 1..Len(READY_Q)}
           pick == PickLoop(qs, exist, job.want, <<>>)
       IN  IF reply.kind = "throw" \/ pick = <<>>
           THEN JobEnd
           ELSE /\ job' = [job EXCEPT !.pc = "render", !.pick = pick,
                                      !.pending = GroupAt(pick, 1)]
                /\ UNCHANGED prefetching
    /\ UNCHANGED <<READY_Q, lastPrefetch, lastNext>>

\* lines 406-417: the render of pick[i] resolves with a url or throws; when
\* it is the last of its group the next group starts, or the job ends
JobRenderDone(i, ok) ==
    /\ job.pc = "render"
    /\ i \in job.pending
    /\ READY_Q' = IF ok
                  THEN QueuePush(READY_Q, [question |-> job.pick[i],
                                           url |-> VideoUrl(job.pick[i])])
                  ELSE READY_Q
    /\ LET left == job.pending \ {i}
           first == i - ((i - 1) % 2) + 2
           nextGroup == GroupAt(job.pick, first)
       IN  IF left # {}
           THEN job' = [job EXCEPT !.pending = left] /\ UNCHANGED prefetching
           ELSE IF nextGroup # {}
                THEN job' = [job EXCEPT !.pending = nextGroup]
                     /\ UNCHANGED prefetching
                ELSE JobEnd
    /\ UNCHANGED <<lastPrefetch, lastNext>>

\* lines 431-435: GET /queue/next
QueueNext ==
    LET sh == QueueShift(READY_Q)
    IN  /\ READY_Q' = sh.rest
        /\ lastNext' = [status |-> IF sh.item = NoVideo THEN 204 ELSE 200,
                        item |-> sh.item, qBefore |-> READY_Q]
        /\ UNCHANGED <<prefetching, job, lastPrefetch>>

QueueNextStep ==
    \/ \E count \in Counts : QueuePrefetch(count)
    \/ \E reply \in BatchReplies : JobChatReply(reply)
    \/ \E i \in 1..MAX_Q, ok \in BOOLEAN : JobRenderDone(i, ok)
    \/ QueueNext

(***************************************************************************)
(* History of the background jobs of POST /queue/prefetch: how many run,   *)
(* how many renders the last one started, and what the last push did.      *)
(***************************************************************************)
NoPush == [qBefore |-> <<>>, item |-> NoVideo, qAfter |-> <<>>]

VARIABLES
    active,       \* history: the number of background jobs that are running
    renders,      \* history: the renders started by the job started last
    lastPush      \* history: the last push of a rendered video

trackVars == <<active, renders, lastPush>>

TrackInit ==
    /\ active = 0
    /\ renders = 0
    /\ lastPush = NoPush

\* POST /queue/prefetch
TrackPrefetch(count) ==
    /\ QueuePrefetch(count)
    /\ active' = IF lastPrefetch'.started THEN active + 1 ELSE active
    /\ renders' = IF lastPrefetch'.started THEN 0 ELSE renders
    /\ UNCHANGED lastPush

\* the chat call of the job returns or rejects; g.map(async (q) => ...)
\* starts the renders of the first group
TrackChatReply(reply) ==
    /\ JobChatReply(reply)
    /\ renders' = renders + Cardinality(job'.pending)
    /\ active' = IF job'.pc = "none" THEN active - 1 ELSE active
    /\ UNCHANGED lastPush

\* a render is over; the last of a group starts the renders of the next
TrackRenderDone(i, ok) ==
    /\ JobRenderDone(i, ok)
    /\ renders' = renders + Cardinality(job'.pending \ job.pending)
    /\ active' = IF job'.pc = "none" THEN active - 1 ELSE active
    /\ lastPush' = IF ok THEN [qBefore |-> READY_Q,
                               item |-> [question |-> job.pick[i],
                                         url |-> VideoUrl(job.pick[i])],
                               qAfter |-> READY_Q']
                  ELSE lastPush

\* GET /queue/next
TrackNext ==
    /\ QueueNext
    /\ UNCHANGED trackVars

JobsNext ==
    \/ \E count \in Counts : TrackPrefetch(count)
    \/ \E reply \in BatchReplies : TrackChatReply(reply)
    \/ \E i \in 1..MAX_Q, ok \in BOOLEAN : TrackRenderDone(i, ok)
    \/ TrackNext

(***************************************************************************)
(* The background job of POST /queue/prefetch with its renders unfolded:   *)
(* each render is a run of speakToVideoUrl (part_003:300-341), the create  *)
(* call and then the 45-second poll loop.  DID_API_KEY and the avatar      *)
(* image are taken to be configured.                                       *)
(***************************************************************************)
\* how long the sleep-free part of one poll round may take
RenderLatencies == {21600, 45000}

NoRender == [pc |-> "none", elapsed |-> 0]

VARIABLES
    rend,         \* per index of pick, where its speakToVideoUrl run stands
    ended         \* history: how the job that ended last came to its end

rendVars == <<rend, ended>>

RendInit ==
    /\ rend = [i \in 1..MAX_Q |-> NoRender]
    /\ ended = ""

\* g.map(async (q) => ...): the renders this step starts are the indices that
\* become pending; the render `done` is over
RendAfter(done) ==
    [i \in 1..MAX_Q |->
        IF i \in job'.pending /\ i \notin job.pending
        THEN [pc |-> "create", elapsed |-> 0]
        ELSE IF i \in done THEN NoRender ELSE rend[i]]

\* POST /queue/prefetch
PfPrefetch(count) ==
    /\ QueuePrefetch(count)
    /\ ended' = IF lastPrefetch'.started THEN "" ELSE ended
    /\ UNCHANGED rend

\* the chat call of the job returns or rejects
PfChatReply(reply) ==
    /\ JobChatReply(reply)
    /\ rend' = RendAfter({})
    /\ ended' = IF job'.pc # "none" THEN ended
                ELSE IF reply.kind = "array" THEN "nopick" ELSE reply.kind

\* the run of speakToVideoUrl for pick[i] returns a url or throws `how`
PfRenderEnd(i, how) ==
    /\ JobRenderDone(i, how = "url")
    /\ rend' = RendAfter({i})
    /\ ended' = IF job'.pc = "none" THEN how ELSE ended

\* part_003:307-324: the create call of a render returns or throws
RenderCreateReply(i, reply) ==
    /\ rend[i].pc = "create"
    /\ IF SvCreateError(reply) # ""
       THEN PfRenderEnd(i, "error")
       ELSE /\ rend' = [rend EXCEPT ![i].pc = "poll"]
            /\ UNCHANGED <<queueVars, ended>>

\* part_003:326-341: one round of the poll loop of a render: the sleep, the
\* poll, and the while test that follows a pending answer
RenderPollReply(i, reply, latency) ==
    /\ rend[i].pc = "poll"
    /\ LET e == rend[i].elapsed + POLL_SLEEP_MS + latency
       IN  IF SvPollError(reply) # "" THEN PfRenderEnd(i, "error")
           ELSE IF reply.body \in {"result", "error_result"}
                THEN PfRenderEnd(i, "url")
                ELSE IF e < POLL_BUDGET_MS
                     THEN /\ rend' = [rend EXCEPT ![i].elapsed = e]
                          /\ UNCHANGED <<queueVars, ended>>
                     ELSE PfRenderEnd(i, "did_timeout")

\* GET /queue/next
PfNext ==
    /\ QueueNext
    /\ UNCHANGED rendVars

PrefetchNext ==
    \/ \E count \in Counts : PfPrefetch(count)
    \/ \E reply \in BatchReplies : PfChatReply(reply)
    \/ \E i \in 1..MAX_Q, reply \in CreateReplies : RenderCreateReply(i, reply)
    \/ \E i \in 1..MAX_Q, reply \in PollReplies, latency \in RenderLatencies :
          RenderPollReply(i, reply, latency)
    \/ PfNext

vars ==
    <<ttsVars, lruVars, mediaVars, lookupVars, rangeVars, proxyVars, svVars,
      askVars, elevenVars, queueVars, trackVars, rendVars>>

Init ==
    /\ TtsInit /\ MediaInit /\ RangeInit /\ ProxyInit /\ SvInit /\ AskInit
    /\ ElevenInit /\ QueueInit /\ LruInit /\ LookupInit /\ TrackInit
    /\ RendInit

SpecAsk ==
    Init /\ [][AskNext /\ UNCHANGED <<ttsVars, mediaVars, rangeVars, proxyVars, svVars, elevenVars, queueVars, lruVars, lookupVars, trackVars, rendVars>>]_vars

SpecTts == Init /\ [][TtsNext /\ UNCHANGED <<mediaVars, rangeVars, proxyVars, svVars, askVars, elevenVars, queueVars, lruVars, lookupVars, trackVars, rendVars>>]_vars

SpecMedia == Init /\ [][MediaNext /\ UNCHANGED <<ttsVars, rangeVars, proxyVars, svVars, askVars, elevenVars, queueVars, lruVars, lookupVars, trackVars, rendVars>>]_vars

SpecRange == Init /\ [][RangeNext /\ UNCHANGED <<ttsVars, proxyVars, svVars, askVars, elevenVars, queueVars, lruVars, lookupVars, trackVars, rendVars>>]_vars

SpecFallback ==
    Init /\ [][FallbackNext /\ UNCHANGED <<rangeVars, proxyVars, svVars, askVars, queueVars, lruVars, lookupVars, trackVars, rendVars>>]_vars

SpecQueue ==
    Init /\ [][QueueNextStep /\ UNCHANGED <<ttsVars, mediaVars, rangeVars, proxyVars,
                                            svVars, askVars, elevenVars, lruVars, lookupVars, trackVars, rendVars>>]_vars

\* the other servers stay as they are
OthersIdle ==
    UNCHANGED <<ttsVars, mediaVars, rangeVars, proxyVars, svVars, askVars,
                elevenVars, lruVars, lookupVars>>

SpecJobs == Init /\ [][JobsNext /\ OthersIdle /\ UNCHANGED rendVars]_vars

\* every vendor call of the job returns or fails
FairSpecPrefetch ==
    /\ Init
    /\ [][PrefetchNext /\ OthersIdle /\ UNCHANGED trackVars]_vars
    /\ WF_vars((\E reply \in BatchReplies : PfChatReply(reply)) /\ OthersIdle /\ UNCHANGED trackVars)
    /\ \A i \in 1..MAX_Q :
          /\ WF_vars((\E reply \in CreateReplies : RenderCreateReply(i, reply))
                        /\ OthersIdle /\ UNCHANGED trackVars)
          /\ WF_vars((\E reply \in PollReplies, latency \in RenderLatencies :
                         RenderPollReply(i, reply, latency)) /\ OthersIdle /\ UNCHANGED trackVars)

SpecLru ==
    Init /\ [][LruNext /\ UNCHANGED <<mediaVars, rangeVars, proxyVars, svVars,
                                      askVars, elevenVars, queueVars, lookupVars, trackVars, rendVars>>]_vars

\* the process runs one of the two servers: the one with the hash-keyed
\* cache (part_001) or the one with the media store (part_002)
StoresNext ==
    \/ TtsNext /\ MediaInit /\ UNCHANGED mediaVars
    \/ MediaNext /\ TtsInit /\ UNCHANGED ttsVars

SpecStores ==
    Init /\ [][StoresNext /\ UNCHANGED <<lruVars, rangeVars, proxyVars, svVars,
                                         askVars, elevenVars, queueVars, lookupVars, trackVars, rendVars>>]_vars

\* time passes and the interval timer fires whenever it is due
FairSpecMedia ==
    /\ Init
    /\ [][MediaNext /\ UNCHANGED <<ttsVars, lruVars, rangeVars, proxyVars, svVars,
                                    askVars, elevenVars, queueVars, lookupVars, trackVars, rendVars>>]_vars
    /\ WF_vars(Tick /\ UNCHANGED <<ttsVars, lruVars, rangeVars, proxyVars, svVars,
                                    askVars, elevenVars, queueVars, lookupVars, trackVars, rendVars>>)
    /\ WF_vars(Sweep /\ UNCHANGED <<ttsVars, lruVars, rangeVars, proxyVars, svVars,
                                     askVars, elevenVars, queueVars, lookupVars, trackVars, rendVars>>)

SpecLookup ==
    Init /\ [][LookupNext /\ UNCHANGED <<ttsVars, lruVars, rangeVars, proxyVars,
                                         svVars, askVars, elevenVars, queueVars,
                                         trackVars, rendVars>>]_vars

SpecSpeak == Init /\ [][ProxyNext /\ UNCHANGED <<ttsVars, mediaVars, rangeVars, svVars, askVars, elevenVars, queueVars, lruVars, lookupVars, trackVars, rendVars>>]_vars

SpecSpeakV == Init /\ [][SvNext /\ UNCHANGED <<ttsVars, mediaVars, rangeVars, proxyVars, askVars, elevenVars, queueVars, lruVars, lookupVars, trackVars, rendVars>>]_vars

\* every vendor call returns or fails and every sleep ends
FairSpecSpeak ==
    /\ Init
    /\ [][ProxyNext /\ UNCHANGED <<ttsVars, mediaVars, rangeVars, svVars, askVars, elevenVars, queueVars, lruVars, lookupVars, trackVars, rendVars>>]_vars
    /\ WF_vars((\E reply \in CreateReplies : SpeakCreateReply(reply))
                  /\ UNCHANGED <<ttsVars, mediaVars, rangeVars, svVars, askVars, elevenVars, queueVars, lruVars, lookupVars, trackVars, rendVars>>)
    /\ WF_vars(SpeakSleepDone /\ UNCHANGED <<ttsVars, mediaVars, rangeVars, svVars, askVars, elevenVars, queueVars, lruVars, lookupVars, trackVars, rendVars>>)
    /\ WF_vars((\E reply \in PollReplies : SpeakPollReply(reply))
                  /\ UNCHANGED <<ttsVars, mediaVars, rangeVars, svVars, askVars, elevenVars, queueVars, lruVars, lookupVars, trackVars, rendVars>>)

(***************************************************************************)
(* Claims about the hash-keyed cache of POST /tts (SpecTts)                *)
(***************************************************************************)

\* C2: whenever a handler has finished a synchronous step, ttsCache holds at
\* most TTS_CACHE_LIMIT entries, under every interleaving of POST /tts requests.
C2_CacheBounded == Len(ttsCache) <= TTS_CACHE_LIMIT

\* the cache is full and an eviction has happened
C2_Witness == Len(ttsCache) = TTS_CACHE_LIMIT /\ evictions > 0

\* the step in which request r stores its audio and answers 200
TtsStoreStep(r) ==
    /\ TtsInFlight(r)
    /\ treq'[r].pc = "done"
    /\ treq'[r].status = 200

C4_SameBytesAsEarlier ==
    \A r \in Req : \A q \in treq[r].preds :
        /\ treq[r].calls = 0
        /\ treq[r].status = 200
        /\ treq[r].body = treq[q].body

\* C4 amended: such a request makes no synthesis call and is answered with the
\* bytes of the request that stored the key last, which is one of the earlier
\* succeeded requests for that key.
C4_CachedBytesNoCall ==
    \A r \in Req :
        treq[r].preds # {}
        => /\ treq[r].pc = "done"
           /\ treq[r].status = 200
           /\ treq[r].calls = 0
           /\ treq[r].src \in treq[r].preds
           /\ treq[r].body = treq[treq[r].src].body

\* a request was served from the cache after an earlier identical one
C4_Witness ==
    \E r \in Req : treq[r].preds # {} /\ treq[r].hit /\ treq[r].status = 200

\* requests r and q asked for the same key and were in flight at once
TtsRaced(r, q) ==
    /\ r # q
    /\ treq[r].key = treq[q].key
    /\ (q \in treq[r].racing \/ r \in treq[q].racing)

\* C6: when the second of two racing requests for one key stores and answers,
\* the cache holds exactly one entry for the key, the size bound holds, both
\* made their own synthesis call and both carry audio of the requested text.
C6_RaceIsBenign ==
    [][\A r, q \in Req :
         (/\ TtsStoreStep(r)
          /\ TtsRaced(r, q)
          /\ treq[q].pc = "done" /\ treq[q].status = 200 /\ ~treq[q].hit)
         => /\ MapCount(ttsCache', treq[r].key) = 1
            /\ Len(ttsCache') <= TTS_CACHE_LIMIT
            /\ treq'[r].calls >= 1 /\ treq'[q].calls >= 1
            /\ treq'[r].body.text = treq[r].text
            /\ treq'[q].body.text = treq[q].text
      ]_vars

\* two racing requests for one key both called the vendor and both answered 200
C6_Witness ==
    \E r, q \in Req :
        /\ TtsRaced(r, q)
        /\ treq[r].pc = "done" /\ treq[r].status = 200 /\ treq[r].calls >= 1
        /\ treq[q].pc = "done" /\ treq[q].status = 200 /\ treq[q].calls >= 1
        /\ MapCount(ttsCache, treq[r].key) = 1

\* C21: in the hash-keyed cache of POST /tts the bytes stored under the key of
\* (voice v, text t) were synthesized with voice v and text t, on every path,
\* the one after a failed first synthesis call included; so a request served
\* from the cache gets audio in its effective voice.
C21_StoredVoiceMatchesKey ==
    /\ \A i \in 1..Len(ttsCache) :
          ttsCache[i].key = ttsKey(ttsCache[i].buf.text, ttsCache[i].buf.voice)
    /\ \A r \in Req :
          treq[r].hit => treq[r].body.voice = treq[r].safeVoice

\* C17: the cache is an LRU cache: a hit counts as a use, and the entry an
\* insertion evicts is the least recently used one (least recently read or
\* written), not merely the earliest inserted.
C17_EvictsLeastRecentlyUsed == lastEvict.key = lastEvict.lru

(***************************************************************************)
(* Claims about the TTL media store (SpecMedia)                            *)
(***************************************************************************)

\* C1: a GET or HEAD lookup answers 200 only for an entry of age at most
\* MEDIA_TTL_MS; a lookup of an entry older than that answers 404 and the
\* entry is gone from the store, whether or not the sweep has run.
C1_NoStaleLookup ==
    /\ lastGet.status = 200 => lastGet.age \in 0..MEDIA_TTL_MS
    /\ lastGet.age > MEDIA_TTL_MS
         => lastGet.status = 404 /\ lastGet.id \notin DOMAIN mediaStore

\* an expired entry the sweep had not removed yet was looked up
C1_Witness == lastGet.age > MEDIA_TTL_MS /\ lastGet.status = 404

\* request r repeats the succeeded request q within MEDIA_TTL_MS of it
MRepeats(r, q) ==
    /\ q \in mreq[r].repeats
    /\ mreq[r].pc = "done" /\ mreq[r].status = 200

\* C5 as stated: the repeated request is served from the bytes stored by the
\* first one and makes no synthesis call.
C5_RepeatServedFromStore ==
    \A r, q \in MReq :
        MRepeats(r, q) => mreq[r].calls = 0 /\ mreq[r].id = mreq[q].id

\* C5 amended: POST /tts never reads the media store; every request that
\* answers 200 made exactly one synthesis call of its own and its audio was
\* stored under an id no other request got.
C5_EveryRequestSynthesizes ==
    \A r \in MReq :
        mreq[r].status = 200
        => /\ mreq[r].calls = 1
           /\ mreq[r].id \in 1..(nextId - 1)
           /\ \A q \in MReq \ {r} : mreq[q].status = 200 => mreq[q].id # mreq[r].id
           /\ mreq[r].id \in DOMAIN mediaStore
                 => mediaStore[mreq[r].id].buf = mreq[r].body

\* a request was repeated within the TTL and both called the vendor
C5_Witness ==
    \E r, q \in MReq :
        MRepeats(r, q) /\ mreq[r].calls = 1 /\ mreq[q].calls = 1
                       /\ mreq[q].id \in DOMAIN mediaStore

\* the step is a run of the interval callback
SweepStep == sweepDue /\ ~sweepDue'

\* C19: a run of the sweep removes exactly the entries with now - ts >
\* MEDIA_TTL_MS and leaves the others as they are; an entry whose age is
\* MEDIA_TTL_MS exactly is kept by the sweep and served by a lookup; and, the
\* timer firing, an entry is eventually removed even when nobody asks for it
\* (stated for the entries that expire before the clock of the model stops).
C19_SweepRemovesExpired ==
    /\ [][SweepStep
            => /\ DOMAIN mediaStore' =
                     {id \in DOMAIN mediaStore :
                         now - mediaStore[id].ts <= MEDIA_TTL_MS}
               /\ \A id \in DOMAIN mediaStore' : mediaStore'[id] = mediaStore[id]
         ]_vars
    /\ [](lastGet.age = MEDIA_TTL_MS => lastGet.status = 200)
    /\ \A id \in MediaIds :
          (id \in DOMAIN mediaStore
             /\ mediaStore[id].ts + MEDIA_TTL_MS < MaxClock)
          ~> (id \notin DOMAIN mediaStore)

\* an entry was removed by the sweep: it is gone, no lookup was ever made,
\* and an entry that is not expired is still there
C19_Witness ==
    /\ lastGet = NoGet
    /\ \E r, q \in MReq :
          /\ mreq[r].status = 200 /\ mreq[r].id \notin DOMAIN mediaStore
          /\ mreq[q].status = 200 /\ mreq[q].id \in DOMAIN mediaStore

\* C20: an entry never changes while it is stored (bytes and timestamp, so
\* no lookup extends its lifetime), every GET answered 200 for an id carries
\* the same bytes, and an id a lookup has answered 404 for is never answered
\* 200 afterwards.
C20_EntriesImmutable ==
    /\ [][\A id \in (DOMAIN mediaStore) \cap (DOMAIN mediaStore') :
            mediaStore'[id] = mediaStore[id]]_vars
    /\ [](\A p, q \in served : p[1] = q[1] => p[2] = q[2])
    /\ [](lastGet.status = 200 => lastGet.id \notin notFound)
    /\ [][notFound \subseteq notFound' /\ served \subseteq served']_vars

\* an entry was served, expired, and was answered 404 afterwards, while the
\* entry of another id is being served
C20_Witness ==
    /\ \E p \in served : p[1] \in notFound
    /\ lastGet.status = 200 /\ lastGet.age > 0

(***************************************************************************)
(* Claims about GET /media/tts/:id with a Range header (SpecRange)         *)
(***************************************************************************)

\* the last GET named both positions a and b and found a live entry
RangeBothGiven ==
    lastRange.total >= 0 /\ lastRange.first # None /\ lastRange.last # None

\* C13: for a live entry of length total and Range: bytes=a-b, if a <= b and
\* a < total the response is 206 with body the bytes a..min(b, total-1),
\* Content-Range 'bytes a-min(b,total-1)/total' and Content-Length the body
\* length, at least 1; if a > b or a >= total it is 416 with Content-Range
\* 'bytes */total' and no body.  No 206 has start > end or end >= total.
C13_RangeBothGiven ==
    LET a == lastRange.first
        b == lastRange.last
        total == lastRange.total
        e == Min(b, total - 1)
    IN  /\ (RangeBothGiven /\ a <= b /\ a < total)
              => /\ lastRange.status = 206
                 /\ lastRange.body = [i \in 1..(e - a + 1) |-> lastRange.bytes[a + i]]
                 /\ lastRange.contentRange = ContentRange(a, e, total)
                 /\ lastRange.contentLength = Len(lastRange.body)
                 /\ lastRange.contentLength >= 1
        /\ (RangeBothGiven /\ (a > b \/ a >= total))
              => /\ lastRange.status = 416
                 /\ lastRange.contentRange = ContentRangeUnsatisfied(total)
                 /\ lastRange.body = <<>>
        /\ lastRange.status = 206
              => /\ lastRange.contentRange[2] <= lastRange.contentRange[4]
                 /\ lastRange.contentRange[4] < total

\* a range reaching past the end was cut to the last byte
C13_Witness ==
    /\ RangeBothGiven /\ lastRange.status = 206
    /\ lastRange.first = 1 /\ lastRange.last = 10 /\ lastRange.total = 3

\* C14: for a live entry of length total and Range: bytes=-N with N > 0 the
\* response is 206 carrying the last min(N, total) bytes, with Content-Range
\* 'bytes (total-min(N,total))-(total-1)/total'.
C14_SuffixRange ==
    LET n == lastRange.last
        total == lastRange.total
        k == Min(n, total)
    IN  (lastRange.total >= 0 /\ lastRange.range.unit = "bytes"
           /\ lastRange.first = None /\ n # None /\ n > 0)
        => /\ lastRange.status = 206
           /\ lastRange.body = [i \in 1..k |-> lastRange.bytes[total - k + i]]
           /\ lastRange.contentRange = ContentRange(total - k, total - 1, total)

(***************************************************************************)
(* Claims about the 24-attempt POST /speak and POST /stt (SpecSpeak)       *)
(***************************************************************************)

\* C7: once the job is created the loop terminates; at most 24 polls are
\* issued, none after a poll that returned a result_url, a status 'error', a
\* non-OK status or a non-JSON body, and every path sends exactly one response.
C7_LoopTerminates ==
    /\ [](/\ spk.polls <= MAX_POLLS
          /\ spk.terminal => spk.pc = "done"
          /\ spk.pc = "done" => spk.responses = 1
          /\ spk.pc # "done" => spk.responses = 0)
    /\ (spk.looped ~> spk.pc = "done")

\* the handler answered after a poll that ended the loop
C7_Witness == spk.terminal /\ spk.pc = "done" /\ spk.polls > 1

\* C8: while every poll answers OK JSON without result_url and without status
\* 'error', nothing is answered before the 24th poll, and the answer is then
\* 504 after exactly 24 polls; a 504 is never sent otherwise.
C8_TimeoutAfter24 ==
    /\ (spk.allPending /\ spk.pc = "done")
          => spk.status = 504 /\ spk.polls = MAX_POLLS
    /\ (spk.allPending /\ spk.polls < MAX_POLLS) => spk.pc # "done"
    /\ spk.status = 504 => spk.allPending /\ spk.polls = MAX_POLLS

\* the handler timed out
C8_Witness == spk.pc = "done" /\ spk.status = 504 /\ spk.allPending

\* C10: after a non-OK vendor status s (create or poll of /speak, the
\* transcription call of /stt) the handler has answered s, once, and has
\* issued no vendor request since.
C10_StatusRelayed ==
    /\ spk.nonOk # 0
          => /\ spk.pc = "done"
             /\ spk.status = spk.nonOk
             /\ spk.responses = 1
             /\ spk.creates + spk.polls = spk.callsAtNonOk
    /\ stt.nonOk # 0
          => /\ stt.pc = "done"
             /\ stt.status = stt.nonOk
             /\ stt.responses = 1
             /\ stt.calls = 1

\* a poll after the first one and a transcription call both failed upstream
C10_Witness ==
    /\ spk.nonOk = 401 /\ spk.polls > 1 /\ spk.status = 401
    /\ stt.nonOk = 500 /\ stt.status = 500

\* C11: an OK vendor reply whose body is not JSON, at create or at a poll, is
\* answered 502; an OK create reply that is JSON without id is answered 502
\* and no poll is issued; an OK poll reply whose JSON has status 'error' and no
\* result_url is answered 502.  Each is answered once and ends the handler.
C11_BadBodyIs502 ==
    /\ spk.cause # ""
          => spk.pc = "done" /\ spk.status = 502 /\ spk.responses = 1
    /\ spk.cause \in {"create_notjson", "create_noid"}
          => spk.polls = 0 /\ spk.creates = 1

\* a create reply without id was answered 502 before any poll
C11_Witness ==
    spk.cause = "create_noid" /\ spk.status = 502 /\ spk.polls = 0

(***************************************************************************)
(* Claims about POST /speak on speakToVideoUrl (SpecSpeakV)                *)
(***************************************************************************)

\* C9: when the 45-second polling budget is exhausted without a result_url,
\* the client receives status 504.
C9_TimeoutIs504 == (sv.pc = "done" /\ sv.timedOut) => sv.status = 504

(***************************************************************************)
(* Claims about POST /ask (SpecAsk)                                        *)
(***************************************************************************)

\* C12: in every POST /ask handler, a request whose body has neither a
\* question nor a prompt is answered 400 and no chat-completion call is made.
C12_MissingIs400 ==
    (ask.pc # "idle" /\ ask.question = Undefined /\ ask.prompt = Undefined)
        => ask.pc = "done" /\ ask.status = 400 /\ ask.calls = 0

\* C22: in the POST /ask handlers that read both fields, the user message is
\* taken from prompt unless prompt is null or undefined, and from question
\* only then; the request is answered 400, with no chat-completion call,
\* exactly when the chosen value is empty after trimming, so an empty or
\* whitespace-only prompt is rejected whatever the question.
C22_PromptFirstTrimmed ==
    (ask.pc # "idle" /\ ask.variant \in {"trimmed", "coalesced"})
        => LET chosen == Coalesce(ask.prompt, ask.question)
               empty == chosen = Undefined \/ Trim(chosen) = ""
           IN  IF empty
               THEN ask.pc = "done" /\ ask.status = 400 /\ ask.calls = 0
               ELSE /\ ask.calls = 1
                    /\ ask.status # 400
                    /\ ask.content = Trim(chosen)

(***************************************************************************)
(* Claims about fallbacks of the synthesis handlers (SpecFallback)         *)
(***************************************************************************)

\* C15 as stated: no request to POST /tts or POST /tts-eleven makes more than
\* one synthesis call.
C15_AtMostOneCall == treq[1].calls <= 1 /\ elv.calls <= 1

\* C15 amended: a request makes at most two synthesis calls; the second is
\* made only after the first one failed, only by the handlers that have a
\* fallback (POST /tts of the cache variant when the voice is not alloy,
\* POST /tts-eleven of part_003), it uses the alloy voice, and a failed
\* fallback call is followed by no further call.
C15_OneFallbackAtMost ==
    /\ treq[1].calls <= 2
    /\ treq[1].calls = 2
          => /\ treq[1].safeVoice # "alloy"
             /\ treq[1].pc \in {"synth2", "done"}
             /\ treq[1].status = 200 => treq[1].body.voice = "alloy"
    /\ elv.calls <= 2
    /\ elv.calls <= elv.failed + 1
    /\ elv.elevenCalls <= 1 /\ elv.openaiCalls <= 1
    /\ elv.calls = 2
          => /\ elv.variant = "fallback"
             /\ elv.status = 200 => elv.body.voice = "alloy"
    /\ elv.variant = "relay" => elv.openaiCalls = 0

\* both handlers answered 200 from their fallback call
C15_Witness ==
    /\ treq[1].calls = 2 /\ treq[1].status = 200
    /\ elv.calls = 2 /\ elv.status = 200 /\ elv.provider = "openai"

(***************************************************************************)
(* Claims about the prefetch queue (SpecQueue)                             *)
(***************************************************************************)

\* C16 as stated: the answers of POST /queue/prefetch and GET /queue/next do
\* not depend on the requests served earlier or in flight; GET /queue/next
\* and POST /queue/prefetch are then always answered as in a run that holds
\* no other request: 204, and { ok, queued: 0 } with a job started.
C16_AnswersIndependent ==
    /\ lastNext.status # 0 => lastNext.status = 204
    /\ lastPrefetch.status # 0
          => /\ lastPrefetch.queued = 0
             /\ ~lastPrefetch.prefetching
             /\ lastPrefetch.started

\* C16 amended: the two answers depend on the other requests through READY_Q
\* and the prefetching flag, and on nothing else: GET /queue/next answers
\* 204 when READY_Q is empty and otherwise the oldest item, which it removes;
\* POST /queue/prefetch answers the length of READY_Q and whether a job was
\* running, and starts a job exactly when none was.
C16_AnswersFollowQueue ==
    /\ lastNext.status # 0
          => IF lastNext.qBefore = <<>>
             THEN lastNext.status = 204 /\ lastNext.item = NoVideo
             ELSE lastNext.status = 200 /\ lastNext.item = Head(lastNext.qBefore)
    /\ lastPrefetch.status # 0
          => /\ lastPrefetch.status = 200
             /\ lastPrefetch.queued = Len(lastPrefetch.qBefore)
             /\ lastPrefetch.prefetching = lastPrefetch.flagBefore
             /\ lastPrefetch.started = ~lastPrefetch.flagBefore

\* a GET /queue/next got a video that an earlier prefetch had queued behind
\* another one, and a POST /queue/prefetch found a job running
C16_Witness ==
    /\ lastNext.status = 200 /\ Len(lastNext.qBefore) > 1
    /\ lastPrefetch.prefetching /\ lastPrefetch.queued > 0

(***************************************************************************)
(* Claims about both audio stores (SpecStores)                             *)
(***************************************************************************)

\* request r of the cache variant answers in this step
TtsAnswers(r) == treq[r].pc # "done" /\ treq'[r].pc = "done"
\* request r of the media-store variant answers in this step
MTtsAnswers(r) == mreq[r].pc # "done" /\ mreq'[r].pc = "done"

\* C18: the step in which a POST /tts request answers 400 or 500 leaves
\* ttsCache and mediaStore as they were; a step of a POST /tts request changes
\* the store only when the request answers 200 after a synthesis call of its
\* own, the new entry holds the bytes it answers with, and the entries of
\* mediaStore that were there keep their bytes and timestamps.
C18_ErrorLeavesStore ==
    [][/\ \A r \in Req :
            (TtsAnswers(r) /\ treq'[r].status # 200) => ttsCache' = ttsCache
       /\ ttsCache' # ttsCache
            => \E r \in Req :
                  /\ TtsStoreStep(r)
                  /\ treq'[r].calls >= 1
                  /\ MapGet(ttsCache', treq[r].key) = treq'[r].body
       /\ \A r \in MReq :
            (MTtsAnswers(r) /\ mreq'[r].status # 200)
               => mediaStore' = mediaStore /\ nextId' = nextId
       /\ mreq' # mreq
            => /\ \A id \in DOMAIN mediaStore :
                     id \in DOMAIN mediaStore' /\ mediaStore'[id] = mediaStore[id]
               /\ \A id \in (DOMAIN mediaStore') \ (DOMAIN mediaStore) :
                     \E r \in MReq :
                        /\ MTtsAnswers(r) /\ mreq'[r].status = 200
                        /\ mreq'[r].calls = 1 /\ mreq'[r].id = id
                        /\ mediaStore'[id] = [buf |-> mreq'[r].body, ts |-> now]
      ]_vars

\* a request failed after its fallback call, another one was refused, and the
\* cache holds the audio of a third
C18_Witness ==
    \E r, q \in Req :
        /\ treq[r].status = 500 /\ treq[r].calls = 2
        /\ treq[q].status = 400
        /\ Len(ttsCache) > 0

(***************************************************************************)
(* Claims about the prefetch job of POST /queue/prefetch (SpecJobs,        *)
(* FairSpecPrefetch)                                                       *)
(***************************************************************************)

\* C23: READY_Q never holds more than MAX_Q items in a state a request
\* handler can observe, under every interleaving of renders and GET
\* /queue/next; a push that would exceed MAX_Q drops the oldest item.
C23_QueueBounded ==
    /\ Len(READY_Q) <= MAX_Q
    /\ lastPush # NoPush
          => lastPush.qAfter =
                IF Len(lastPush.qBefore) >= MAX_Q
                THEN Append(Tail(lastPush.qBefore), lastPush.item)
                ELSE Append(lastPush.qBefore, lastPush.item)

\* a render was pushed onto a full queue
C23_Witness ==
    /\ lastPush # NoPush /\ Len(lastPush.qBefore) = MAX_Q
    /\ READY_Q = lastPush.qAfter
    /\ lastPush.item.question \notin
          {lastPush.qBefore[i].question : i \in 1..MAX_Q}

\* a step of POST /queue/prefetch (the only one that writes lastPrefetch)
\* taken while the flag is set
BusyPrefetchStep == prefetching /\ lastPrefetch' # lastPrefetch

\* C24: at most one background job runs at a time, and the flag is set in
\* every state in which one runs; a POST /queue/prefetch that finds the flag
\* set starts no job (no chat or video call) and answers
\* { ok: true, queued, prefetching: true }.
C24_OneJobAtATime ==
    /\ [](active <= 1 /\ (prefetching <=> active = 1))
    /\ [](lastPrefetch.status # 0 /\ lastPrefetch.flagBefore
            => /\ lastPrefetch.status = 200
               /\ lastPrefetch.prefetching
               /\ ~lastPrefetch.started)
    /\ [][BusyPrefetchStep
            => /\ job' = job /\ renders' = renders /\ active' = active
               /\ prefetching' /\ READY_Q' = READY_Q]_vars

\* a POST /queue/prefetch arrived while a job was rendering
C24_Witness ==
    /\ lastPrefetch.status = 200 /\ lastPrefetch.flagBefore
    /\ active = 1 /\ job.pc = "render"

\* C26: READY_Q never holds two items with the same question, whatever list
\* the chat vendor returns and whatever the queue held before.
C26_NoDuplicateQuestions ==
    \A i \in 1..Len(READY_Q) : \A j \in 1..Len(READY_Q) :
        i # j => READY_Q[i].question # READY_Q[j].question

\* C27: a job starts at most want renders, want = min(count, MAX_Q) with an
\* absent or zero count read as MAX_Q, for every numeric count, negative
\* ones included; so it never starts more than MAX_Q renders.
C27_AtMostWantRenders ==
    job.pc # "none"
        => /\ renders <= (IF job.want > 0 THEN job.want ELSE 0)
           /\ renders <= MAX_Q

\* C25: once a prefetch job has set the prefetching flag, the flag returns to
\* false on every path (the chat call fails, its answer holds no JSON array,
\* nothing is picked, renders fail, time out or succeed), provided every
\* vendor call returns or fails; a POST /queue/prefetch that finds the flag
\* false starts a new job.
C25_FlagReturnsToFalse ==
    /\ prefetching ~> ~prefetching
    /\ [](lastPrefetch.status # 0 /\ ~lastPrefetch.flagBefore
            => lastPrefetch.started)

\* a job whose last render ran into the 45-second timeout has ended and the
\* flag is false again
C25_Witness ==
    ~prefetching /\ ended = "did_timeout"

====
